---- MODULE Spec2Model ----
(***************************************************************************)
(* A model of skift/core.py: the scikit-learn classifier adapters for      *)
(* fasttext (FtClassifierABC and its four variants).                       *)
(*                                                                         *)
(* One adapter instance is modelled.  Its construction arguments are       *)
(* chosen in Init; fit, predict and predict_proba are the actions.  The    *)
(* trainer (fastText.train_supervised), the model it returns and the file  *)
(* writer (util.dump_xy_to_fasttext_format) are collaborators: the trainer *)
(* and the file system may fail, and the model answers a query with any    *)
(* ranking of label tokens of the file it was trained on.                  *)
(***************************************************************************)
EXTENDS Integers, Sequences, FiniteSets, TLC

VARIABLES
    variant,              \* which adapter class was instantiated
    input_ix,             \* IdxBasedFtClassifier.input_ix
    input_col_lbl,        \* ColLblBasedFtClassifier.input_col_lbl
    ctorKwargs,           \* the **kwargs the caller gave to the constructor
    kwargs,               \* self.kwargs
    has,                  \* names of the attributes fit has set on self
    classes_,             \* self.classes_
    num_classes_,         \* self.num_classes_
    class_labels_,        \* self.class_labels_
    temp_trainset_fpath,  \* self.temp_trainset_fpath
    model,                \* self.model: the label tokens the model was trained on
    modelFit,             \* the sorted unique labels of the y of the fit that produced self.model
    files,                \* the training files on disk: path -> lines
    trainCalls,           \* the calls made to train_supervised: <<[input, opts, fit]>>
    assigned,             \* the paths temp_dataset_fpath returned, one per fit that reached it
    nfits,                \* number of fit calls made
    fitted,               \* whether a fit call has returned successfully
    res                   \* the outcome of the last call on the adapter

vars == <<variant, input_ix, input_col_lbl, ctorKwargs, kwargs, has, classes_,
          num_classes_, class_labels_, temp_trainset_fpath, model, modelFit,
          files, trainCalls, assigned, nfits, fitted, res>>

attrs == <<kwargs, has, classes_, num_classes_, class_labels_,
           temp_trainset_fpath, model>>

(***************************************************************************)
(* Bounds of the model.                                                    *)
(***************************************************************************)
MaxRows == 2      \* rows of a table, entries of y
MaxFits == 2      \* fit calls in one behaviour
SuffixHi == 2     \* randint(1, SuffixHi) stands for randint(1, 99999)

Labels == {2, 10}
Variants == {"FirstCol", "IdxBased", "FirstObj", "ColLblBased"}

(***************************************************************************)
(* Strings that the code formats or parses are sequences of characters.    *)
(***************************************************************************)
Digits == <<"0", "1", "2", "3", "4", "5", "6", "7", "8", "9">>

RECURSIVE NatToStr(_)
NatToStr(n) ==
    IF n < 10 THEN <<Digits[n + 1]>>
    ELSE NatToStr(n \div 10) \o <<Digits[(n % 10) + 1]>>

\* '{}'.format(n) for an int n
IntToStr(n) == IF n < 0 THEN <<"-">> \o NatToStr(0 - n) ELSE NatToStr(n)

DigitVal(c) == CHOOSE d \in 0..9 : Digits[d + 1] = c
IsDigit(c) == \E d \in 0..9 : Digits[d + 1] = c

RECURSIVE DigitsToNat(_)
DigitsToNat(s) ==
    IF s = <<>> THEN 0
    ELSE 10 * DigitsToNat(SubSeq(s, 1, Len(s) - 1)) + DigitVal(s[Len(s)])

\* int(s) for a str s: an optional sign and at least one digit, else ValueError
PyInt(s) ==
    LET signed == s # <<>> /\ s[1] \in {"-", "+"}
        body == IF signed THEN Tail(s) ELSE s
    IN  IF body = <<>> \/ \E i \in 1..Len(body) : ~IsDigit(body[i])
        THEN [err |-> "ValueError", val |-> 0]
        ELSE [err |-> "none",
              val |-> IF signed /\ s[1] = "-" THEN 0 - DigitsToNat(body)
                      ELSE DigitsToNat(body)]

LabelPrefix == <<"_", "_", "l", "a", "b", "e", "l", "_", "_">>

\* '__label__{}'.format(lbl)
LabelToken(lbl) == LabelPrefix \o IntToStr(lbl)

(***************************************************************************)
(* temp_dataset_fpath: TEMP_DIR/temp_ft_trainset_<n>.ft for the n drawn.   *)
(***************************************************************************)
temp_dataset_fpath(rnd) == <<"TEMP_DIR", "temp_ft_trainset_", rnd, ".ft">>

CallerPath == <<"caller", "train.txt", 0, "">>
Paths == {temp_dataset_fpath(n) : n \in 1..SuffixHi}

(***************************************************************************)
(* Constructors.  An options mapping is a set of <<key, value>> pairs.     *)
(***************************************************************************)
\* no options, or epoch=5 together with a caller's input=...
OptionMaps ==
    { {}, {<<"input", CallerPath>>, <<"epoch", <<"int", "5", 0, "">> >>} }

Keys(kw) == {p[1] : p \in kw}

\* dict.pop(key, None)
Pop(kw, key) == {p \in kw : p[1] # key}

\* __init__ without the pop of 'input'
FtClassifierABC_init_keeps_input(kw) == kw

FtClassifierABC_init(kw) == Pop(kw, "input")

\* super().__init__() is called without the keyword arguments
IdxBasedFtClassifier_init(ix, kw) == FtClassifierABC_init({})

ColLblBasedFtClassifier_init(lbl, kw) == FtClassifierABC_init({})

Construct(v, ix, lbl, kw) ==
    CASE v = "IdxBased" -> IdxBasedFtClassifier_init(ix, kw)
      [] v = "ColLblBased" -> ColLblBasedFtClassifier_init(lbl, kw)
      [] OTHER -> FtClassifierABC_init(kw)

(***************************************************************************)
(* Tables.  A table has a container kind, a number of dimensions, a number *)
(* of rows and a sequence of columns, each with a name and a dtype.  The   *)
(* text in row r of the column at position c is <<c, r>>.                  *)
(***************************************************************************)
StrName(s) == [t |-> "str", v |-> s]
IntName(s) == [t |-> "int", v |-> s]
ColNames == {StrName("text"), IntName("0")}

\* bool(name): 0 and '' are falsy
Truthy(name) == ~(name = IntName("0") \/ name = StrName(""))

ALLOWED_DTYPES_ == {"<U26", "object"}
ArrayDtypes == {"object", "<U26", "<U5"}
FrameDtypes == {"object", "int64", "bool"}

Col(name, dtype) == [name |-> name, dtype |-> dtype]

NdArrays ==
    { [kind |-> "ndarray", ndim |-> 2, nrows |-> n,
       cols |-> [i \in 1..c |-> Col(IntName("pos"), d)]] :
         n \in 1..MaxRows, c \in 1..2, d \in ArrayDtypes }
    \cup
    { [kind |-> "ndarray", ndim |-> 1, nrows |-> n,
       cols |-> <<Col(IntName("pos"), "object")>>] : n \in {MaxRows} }

DataFrames ==
    { [kind |-> "DataFrame", ndim |-> 2, nrows |-> n, cols |-> <<Col(a, "object")>>] :
         n \in 1..MaxRows, a \in ColNames }
    \cup
    { [kind |-> "DataFrame", ndim |-> 2, nrows |-> n,
       cols |-> <<Col(nm[1], d1), Col(nm[2], d2)>>] :
         n \in 1..MaxRows,
         nm \in {<<a, b>> \in ColNames \X ColNames : a # b},
         d1 \in FrameDtypes, d2 \in FrameDtypes }

Tables == NdArrays \cup DataFrames

Column(X, c) == [err |-> "none", col |-> [r \in 1..X.nrows |-> <<c, r>>]]
ColumnError(e) == [err |-> e, col |-> <<>>]

\* np.array(X).dtype: the dtype of an ndarray, the common dtype of a frame's
\* columns (object as soon as two columns differ)
np_array_dtype(X) ==
    IF \A i \in 1..Len(X.cols) : X.cols[i].dtype = X.cols[1].dtype
    THEN X.cols[1].dtype
    ELSE "object"

np_array(X) ==
    [kind |-> "ndarray", ndim |-> X.ndim, nrows |-> X.nrows,
     cols |-> [i \in 1..Len(X.cols) |-> Col(IntName("pos"), np_array_dtype(X))]]

RECURSIVE _validate_x(_)
_validate_x(X) ==
    IF X.kind = "ndarray"
    THEN IF np_array_dtype(X) \notin ALLOWED_DTYPES_ THEN "ValueError" ELSE "none"
    ELSE _validate_x(np_array(X))      \* except AttributeError

\* y: [ndim, vals]
Ys ==
    { [ndim |-> 1, vals |-> v] :
         v \in UNION {[1..n -> Labels] : n \in 1..MaxRows} }
    \cup {[ndim |-> 2, vals |-> <<2, 10>>]}

_validate_y(y) == IF y.ndim # 1 THEN "ValueError" ELSE "none"

(***************************************************************************)
(* The input-column strategies.                                            *)
(***************************************************************************)
\* X[:, ix] on an ndarray; the same expression on a frame is an invalid key
PositionalCol(X, ix) ==
    IF X.kind # "ndarray" THEN ColumnError("TypeError")
    ELSE IF X.ndim # 2 \/ ix + 1 > Len(X.cols) THEN ColumnError("IndexError")
    ELSE Column(X, ix + 1)

FirstCol_input_col(X) == PositionalCol(X, 0)

IdxBased_input_col(X) == PositionalCol(X, input_ix)

\* the position of the first column of dtype object, 0 when there is none
FirstObjectPos(X) ==
    IF \E i \in 1..Len(X.cols) : X.cols[i].dtype = "object"
    THEN CHOOSE i \in 1..Len(X.cols) :
            /\ X.cols[i].dtype = "object"
            /\ \A j \in 1..(i - 1) : X.cols[j].dtype # "object"
    ELSE 0

FirstObj_input_col(X) ==
    IF X.kind # "DataFrame" THEN ColumnError("AttributeError")   \* X.dtypes
    ELSE LET p == FirstObjectPos(X)
         IN  IF p # 0 /\ Truthy(X.cols[p].name)     \* if input_col_name:
             THEN Column(X, p)
             ELSE ColumnError("ValueError")

ColLblBased_input_col(X) ==
    IF X.kind # "DataFrame" THEN ColumnError("IndexError")
    ELSE IF \E i \in 1..Len(X.cols) : X.cols[i].name = input_col_lbl
         THEN Column(X, CHOOSE i \in 1..Len(X.cols) : X.cols[i].name = input_col_lbl)
         ELSE ColumnError("KeyError")

_input_col(X) ==
    CASE variant = "FirstCol" -> FirstCol_input_col(X)
      [] variant = "IdxBased" -> IdxBased_input_col(X)
      [] variant = "FirstObj" -> FirstObj_input_col(X)
      [] OTHER -> ColLblBased_input_col(X)

(***************************************************************************)
(* Collaborators.                                                          *)
(***************************************************************************)
Min(S) == CHOOSE m \in S : \A n \in S : m <= n

RECURSIVE SortedSeq(_)
SortedSeq(S) ==
    IF S = {} THEN <<>> ELSE <<Min(S)>> \o SortedSeq(S \ {Min(S)})

\* sklearn.utils.multiclass.unique_labels: the sorted unique values of y
unique_labels(vals) == SortedSeq({vals[i] : i \in 1..Len(vals)})

MinOf(a, b) == IF a <= b THEN a ELSE b

\* util.dump_xy_to_fasttext_format: one line '<label token> <text>' per
\* (text, label) pair of zip(X, y)
dump_xy_to_fasttext_format(col, vals) ==
    [i \in 1..MinOf(Len(col), Len(vals)) |->
        [label |-> LabelToken(vals[i]), text |-> col[i]]]

NoFile == [exists |-> FALSE, lines |-> <<>>]
File(lines) == [exists |-> TRUE, lines |-> lines]

\* the label tokens a trainer finds in a training file
FileLabels(lines) == {lines[i].label : i \in 1..Len(lines)}

\* fastText refuses a training file without examples
TrainerAccepts(lines) == lines # <<>>

Injective(s) == \A i, j \in 1..Len(s) : i # j => s[i] # s[j]

\* model.predict(text, k): up to k distinct label tokens of the training file,
\* best first, with their scores (descending)
ModelResults(tokens, k) ==
    LET top == MinOf(k, Cardinality(tokens))
        lens == IF top = 0 THEN {0} ELSE 1..top
    IN  { [labels |-> s, scores |-> [i \in 1..Len(s) |-> Len(s) + 1 - i]] :
            s \in {t \in UNION {[1..n -> tokens] : n \in lens} : Injective(t)} }

(***************************************************************************)
(* The outcome of a call on the adapter.                                   *)
(***************************************************************************)
\* op: the call; err: the error it raised, "none" when it returned; value: what
\* it returned; raw: the queries made to the model, one per row, with their
\* answers; k: the result count asked of the model; rows: the rows of the X
\* given to predict or predict_proba
Outcome(op, err, value, raw, k, rows) ==
    [op |-> op, err |-> err, value |-> value, raw |-> raw, k |-> k, rows |-> rows]

Idle == Outcome("idle", "none", <<>>, <<>>, 0, 0)

FitAttrs == {"classes_", "num_classes_", "class_labels_", "temp_trainset_fpath"}

(***************************************************************************)
(* FtClassifierABC.fit                                                     *)
(***************************************************************************)
\* what the file system and the trainer do in one fit call
Fates == {"io_fail", "train_fail", "ok"}

fit(X, y) ==
    /\ res.op = "idle"
    /\ nfits < MaxFits
    /\ nfits' = nfits + 1
    /\ UNCHANGED <<variant, input_ix, input_col_lbl, ctorKwargs, kwargs>>
    /\ IF _validate_x(X) # "none" \/ _validate_y(y) # "none"
       THEN /\ res' = Outcome("fit", "ValueError", <<>>, <<>>, 0, 0)
            /\ UNCHANGED <<has, classes_, num_classes_, class_labels_,
                           temp_trainset_fpath, model, modelFit, files,
                           trainCalls, assigned, fitted>>
       ELSE \E rnd \in 1..SuffixHi :
            LET classes == unique_labels(y.vals)
                fpath == temp_dataset_fpath(rnd)
                input_col == _input_col(X)
            IN  /\ classes_' = classes
                /\ num_classes_' = Len(classes)
                /\ class_labels_' = [i \in 1..Len(classes) |-> LabelToken(classes[i])]
                /\ temp_trainset_fpath' = fpath
                /\ assigned' = Append(assigned, [fit |-> nfits + 1, path |-> fpath])
                /\ IF input_col.err # "none"
                   THEN /\ res' = Outcome("fit", input_col.err, <<>>, <<>>, 0, 0)
                        /\ has' = has \cup FitAttrs
                        /\ UNCHANGED <<model, modelFit, files, trainCalls, fitted>>
                   ELSE \E fate \in Fates :
                        LET lines == dump_xy_to_fasttext_format(input_col.col, y.vals)
                            written == fate # "io_fail"
                            \* train_supervised(input=..., **self.kwargs) is a
                            \* TypeError when self.kwargs holds 'input' as well
                            called == written /\ "input" \notin Keys(kwargs)
                            trained == called /\ fate = "ok" /\ TrainerAccepts(lines)
                        IN  /\ files' = IF written
                                        THEN [files EXCEPT ![fpath] = File(lines)]
                                        ELSE files
                            /\ trainCalls' =
                                  IF called
                                  THEN Append(trainCalls, [input |-> fpath,
                                                           opts |-> kwargs,
                                                           fit |-> nfits + 1])
                                  ELSE trainCalls
                            /\ model' = IF trained THEN FileLabels(files'[fpath].lines)
                                        ELSE model
                            /\ modelFit' = IF trained THEN classes ELSE modelFit
                            /\ fitted' = (fitted \/ trained)
                            /\ has' = has \cup FitAttrs
                                          \cup (IF trained THEN {"model"} ELSE {})
                            /\ res' = Outcome("fit",
                                         CASE ~written -> "IOError"
                                           [] ~called -> "TypeError"
                                           [] ~trained -> "TrainerError"
                                           [] OTHER -> "none",
                                         <<>>, <<>>, 0, 0)

(***************************************************************************)
(* FtClassifierABC._predict, predict, predict_proba                        *)
(***************************************************************************)
\* check_is_fitted(self, ['model'])
check_is_fitted == IF "model" \in has THEN "none" ELSE "NotFittedError"

\* int(ft_label[10:]): the prefix taken one character too long
_clean_label_off_by_one(ft_label) == PyInt(SubSeq(ft_label, 11, Len(ft_label)))

\* int(ft_label[9:])
_clean_label(ft_label) == PyInt(SubSeq(ft_label, 10, Len(ft_label)))

\* the error _predict raises before it queries the model, or "none"
PredictError(X) ==
    IF check_is_fitted # "none" THEN check_is_fitted
    ELSE IF _validate_x(X) # "none" THEN _validate_x(X)
    ELSE _input_col(X).err

\* the possible values of [self.model.predict(text, k) for text in input_col],
\* each answer kept with the text it was asked for
_predict(X, k) ==
    LET input_col == _input_col(X).col
    IN  { [i \in 1..Len(input_col) |->
              [text |-> input_col[i], labels |-> f[i].labels, scores |-> f[i].scores]] :
            f \in [1..Len(input_col) -> ModelResults(model, k)] }

\* list.index(x): the first position of x in s (from 0), -1 for ValueError
ListIndex(s, x) ==
    IF \E i \in 1..Len(s) : s[i] = x
    THEN (CHOOSE i \in 1..Len(s) : s[i] = x /\ \A j \in 1..(i - 1) : s[j] # x) - 1
    ELSE -1

\* e inserted into the key-sorted sequence s after every entry whose key is
\* not greater (entries are <<key, item>>)
InsertByKey(s, e) ==
    LET before == Cardinality({i \in 1..Len(s) : s[i][1] <= e[1]})
    IN  SubSeq(s, 1, before) \o <<e>> \o SubSeq(s, before + 1, Len(s))

RECURSIVE SortedByKey(_)
\* sorted(items, key=...): a stable sort of <<key, item>> entries
SortedByKey(s) ==
    IF s = <<>> THEN <<>>
    ELSE InsertByKey(SortedByKey(SubSeq(s, 1, Len(s) - 1)), s[Len(s)])

_format_probas(result) ==
    LET n == MinOf(Len(result.labels), Len(result.scores))      \* zip
        keyed == [i \in 1..n |->
                    <<ListIndex(class_labels_, result.labels[i]), result.scores[i]>>]
    IN  IF \E i \in 1..n : keyed[i][1] = -1
        THEN [err |-> "ValueError", val |-> <<>>]
        ELSE [err |-> "none", val |-> [i \in 1..n |-> SortedByKey(keyed)[i][2]]]

FirstError(rs) ==
    IF \E i \in 1..Len(rs) : rs[i].err # "none"
    THEN rs[CHOOSE i \in 1..Len(rs) :
               rs[i].err # "none" /\ \A j \in 1..(i - 1) : rs[j].err = "none"].err
    ELSE "none"

Values(rs) == IF FirstError(rs) = "none" THEN [i \in 1..Len(rs) |-> rs[i].val] ELSE <<>>

predict(X) ==
    /\ res.op = "idle"
    /\ UNCHANGED <<variant, input_ix, input_col_lbl, ctorKwargs, kwargs, has,
                   classes_, num_classes_, class_labels_, temp_trainset_fpath,
                   model, modelFit, files, trainCalls, assigned, nfits, fitted>>
    /\ IF PredictError(X) # "none"
       THEN res' = Outcome("predict", PredictError(X), <<>>, <<>>, 1, X.nrows)
       ELSE \E raw \in _predict(X, 1) :
               LET out == [i \in 1..Len(raw) |->
                             IF raw[i].labels = <<>>
                             THEN [err |-> "IndexError", val |-> 0]
                             ELSE _clean_label(raw[i].labels[1])]
               IN  res' = Outcome("predict", FirstError(out), Values(out), raw, 1, X.nrows)

predict_proba(X) ==
    /\ res.op = "idle"
    /\ UNCHANGED <<variant, input_ix, input_col_lbl, ctorKwargs, kwargs, has,
                   classes_, num_classes_, class_labels_, temp_trainset_fpath,
                   model, modelFit, files, trainCalls, assigned, nfits, fitted>>
    /\ IF "num_classes_" \notin has            \* self.num_classes_ is read first
       THEN res' = Outcome("predict_proba", "AttributeError", <<>>, <<>>, 0, X.nrows)
       ELSE IF PredictError(X) # "none"
       THEN res' = Outcome("predict_proba", PredictError(X), <<>>, <<>>, num_classes_, X.nrows)
       ELSE \E raw \in _predict(X, num_classes_) :
               LET out == [i \in 1..Len(raw) |-> _format_probas(raw[i])]
               IN  res' = Outcome("predict_proba", FirstError(out), Values(out),
                                  raw, num_classes_, X.nrows)

(***************************************************************************)
(* The specification.                                                      *)
(***************************************************************************)
Configs ==
    { [variant |-> v, input_ix |-> ix, input_col_lbl |-> lbl] :
        v \in Variants, ix \in {0, 1}, lbl \in {StrName("text")} }

\* one configuration per locator the variant takes
Config(c) ==
    /\ c.variant = "IdxBased" <=> c.input_ix = 1
    /\ c.variant # "ColLblBased" => c.input_col_lbl = StrName("text")

\* The adapter after construction.  An attribute that is not in `has` does not
\* exist yet; the value its variable holds is a placeholder that no action reads.
Init ==
    \E c \in {d \in Configs : Config(d)}, kw \in OptionMaps :
        /\ variant = c.variant
        /\ input_ix = c.input_ix
        /\ input_col_lbl = c.input_col_lbl
        /\ ctorKwargs = kw
        /\ kwargs = Construct(c.variant, c.input_ix, c.input_col_lbl, kw)
        /\ has = {}
        /\ classes_ = <<>>
        /\ num_classes_ = 0
        /\ class_labels_ = <<>>
        /\ temp_trainset_fpath = temp_dataset_fpath(0)
        /\ model = {}
        /\ modelFit = <<>>
        /\ files = [p \in Paths |-> NoFile]
        /\ trainCalls = <<>>
        /\ assigned = <<>>
        /\ nfits = 0
        /\ fitted = FALSE
        /\ res = Idle

\* fit is called with one label per row of X (or with a y of the wrong rank)
FitCall ==
    \E X \in Tables, y \in Ys :
        /\ y.ndim = 1 => Len(y.vals) = X.nrows
        /\ fit(X, y)

PredictCall == \E X \in Tables : predict(X)

PredictProbaCall == \E X \in Tables : predict_proba(X)

\* the caller takes the outcome of a call and is free to make the next one
Return ==
    /\ res.op # "idle"
    /\ res' = Idle
    /\ UNCHANGED <<variant, input_ix, input_col_lbl, ctorKwargs, kwargs, has,
                   classes_, num_classes_, class_labels_, temp_trainset_fpath,
                   model, modelFit, files, trainCalls, assigned, nfits, fitted>>

Next == FitCall \/ PredictCall \/ PredictProbaCall \/ Return

Spec == Init /\ [][Next]_vars

(***************************************************************************)
(* The labeled-first-text strategy on its own: FirstObjFtClassifier's      *)
(* _input_col applied to labeled tables with any column names.             *)
(***************************************************************************)
WideNames == {StrName("text"), StrName("other"), StrName(""), IntName("0")}

WideFrames ==
    { [kind |-> "DataFrame", ndim |-> 2, nrows |-> n, cols |-> <<Col(a, d)>>] :
         n \in 1..MaxRows, a \in WideNames, d \in FrameDtypes }
    \cup
    { [kind |-> "DataFrame", ndim |-> 2, nrows |-> n,
       cols |-> <<Col(nm[1], d1), Col(nm[2], d2)>>] :
         n \in 1..MaxRows,
         nm \in {<<a, b>> \in WideNames \X WideNames : a # b},
         d1 \in FrameDtypes, d2 \in FrameDtypes }

InitCol == Init /\ variant = "FirstObj"

InputColCall ==
    \E X \in WideFrames :
        /\ res' = Outcome("_input_col", FirstObj_input_col(X).err,
                          FirstObj_input_col(X).col, <<X>>, 0, X.nrows)
        /\ UNCHANGED <<variant, input_ix, input_col_lbl, ctorKwargs, kwargs, has,
                       classes_, num_classes_, class_labels_, temp_trainset_fpath,
                       model, modelFit, files, trainCalls, assigned, nfits, fitted>>

SpecCol == InitCol /\ [][InputColCall]_vars

(***************************************************************************)
(* Properties.                                                             *)
(***************************************************************************)
Range(s) == {s[i] : i \in 1..Len(s)}

Queried == res.raw # <<>>

\* C1: while no fit call has returned successfully, predict and predict_proba
\* fail with a not-fitted error and never query a model.
C1_NotFittedBeforeFit ==
    (res.op \in {"predict", "predict_proba"} /\ ~fitted)
        => (res.err = "NotFittedError" /\ ~Queried)

\* C2: every option given at construction other than 'input' reaches the
\* trainer, with the same key and value, on each fit call.
C2_OptionsForwarded ==
    \A i \in 1..Len(trainCalls) :
        trainCalls[i].opts = {p \in ctorKwargs : p[1] # "input"}

\* C3: the stored options never contain 'input', and the file path every
\* trainer call receives is the path generated in that same fit call, never
\* the caller's value.
C3_InputKeyNeverForwarded ==
    /\ "input" \notin Keys(kwargs)
    /\ \A i \in 1..Len(trainCalls) :
          /\ "input" \notin Keys(trainCalls[i].opts)
          /\ trainCalls[i].input # CallerPath
          /\ \E j \in 1..Len(assigned) :
                /\ assigned[j].fit = trainCalls[i].fit
                /\ assigned[j].path = trainCalls[i].input

C3_Witness ==
    /\ <<"input", CallerPath>> \in ctorKwargs
    /\ variant \in {"FirstCol", "FirstObj"}
    /\ Len(trainCalls) = 2
    /\ res.op = "fit" /\ res.err = "none"

C5_ProbaCanonicalOrder ==
    (res.op = "predict_proba" /\ Queried) =>
        /\ res.k = Len(modelFit)
        /\ (\A i \in 1..Len(res.raw) :
               /\ Len(res.raw[i].labels) = Len(modelFit)
               /\ Range(res.raw[i].labels) = {LabelToken(c) : c \in Range(modelFit)})
           => /\ res.err = "none"
              /\ Len(res.value) = res.rows
              /\ \A i \in 1..Len(res.value) :
                    /\ Len(res.value[i]) = Len(modelFit)
                    /\ Len(classes_) = Len(modelFit)
                    /\ \A j \in 1..Len(modelFit) :
                          \E q \in 1..Len(res.raw[i].labels) :
                              /\ res.raw[i].labels[q] = LabelToken(classes_[j])
                              /\ res.value[i][j] = res.raw[i].scores[q]

\* C6: whenever the adapter holds a model, the class registry is that of the
\* fit call that produced the model.
C6_RegistryIsThatOfTheModel ==
    "model" \in has =>
        /\ classes_ = modelFit
        /\ num_classes_ = Len(modelFit)
        /\ class_labels_ = [j \in 1..Len(modelFit) |-> LabelToken(modelFit[j])]

\* C7: a fit call that fails with an input-validation error (element type,
\* rank of y, missing input column) has changed no attribute, written no
\* file and not invoked the trainer.
C7_ValidationErrorsHaveNoEffect ==
    [][(res.op = "idle" /\ res'.op = "fit"
           /\ res'.err \in {"ValueError", "KeyError", "IndexError"})
        => UNCHANGED <<attrs, files, trainCalls>>]_vars

\* C8: when an answer of the model holds fewer results than the n classes of
\* the fit, predict_proba fails with a ValueError; it never returns a vector
\* shorter than n.
C8_ShortAnswerRaises ==
    (res.op = "predict_proba" /\ Queried) =>
        /\ (\E i \in 1..Len(res.raw) : Len(res.raw[i].labels) < Len(modelFit))
              => res.err = "ValueError"
        /\ res.err = "none"
              => \A i \in 1..Len(res.value) : Len(res.value[i]) >= Len(modelFit)

\* C9: the labeled-first-text strategy returns the first column of object
\* dtype, in declared order, whatever its name, and fails with ValueError
\* exactly when the table has no column of object dtype.
C9_FirstObjectColumnWhateverItsName ==
    res.op = "_input_col" =>
        LET X == res.raw[1]
            objs == {i \in 1..Len(X.cols) : X.cols[i].dtype = "object"}
        IN  /\ objs # {} =>
                  /\ res.err = "none"
                  /\ res.value = [r \in 1..X.nrows |-> <<Min(objs), r>>]
            /\ res.err = "ValueError" <=> objs = {}

\* C10: no two fit calls are assigned the same training-file path.
C10_PathsNeverShared ==
    \A i, j \in 1..Len(assigned) :
        i # j => assigned[i].path # assigned[j].path

====
